---- MODULE Spec2Model ----
(***************************************************************************)
(* A model of the mplex stream multiplexer of py-libp2p:                   *)
(*   libp2p/stream_muxer/mplex/mplex.py             (class Mplex)          *)
(*   libp2p/network/connection/raw_connection.py    (class RawConnection)  *)
(*                                                                         *)
(* Scheduling is asyncio's: one event loop, tasks run without interruption *)
(* from one suspension point (an await that really waits) to the next.     *)
(* Each action below is therefore one such uninterrupted run of a task.    *)
(***************************************************************************)
EXTENDS Integers, Sequences, FiniteSets, TLC

VARIABLES
    buffers,        \* Mplex.buffers: stream id -> asyncio.Queue of chunks
    stream_queue,   \* Mplex.stream_queue: ids awaiting accept_stream
    loop,           \* the handle_incoming task: where it is, what it holds
    nframes,        \* history: how many frames read_message has returned
    arrived,        \* history: per stream id, the non-empty payloads of its frames
    announced,      \* history: the stream ids of the NewStream frames, in order
    dispatched,     \* history: stream ids handed to generic_protocol_handler
    returned,       \* history: per stream id, the chunks reads have returned
    task,           \* the caller tasks: the call each is suspended in, if any
    last,           \* the outcome of the call that ended last
    next_id,        \* the connection's stream id counter (conn.next_stream_id)
    out,            \* what conn.writer.write was given, in order
    closed,         \* Mplex.close() has closed the transport
    reset,          \* the transport has reported a connection reset
    cin,            \* codec run: the (flag, data, stream_id) given to send_message
    cwire,          \* codec and wire runs: the bytes in the reader, not yet read
    cdec,           \* codec run: what read_message returned
    cpc,            \* codec run: "start", "sent" or "read"
    flight,         \* wire run: bytes the peer has written that have not arrived
    sent,           \* wire run, history: the frames the peer has written
    routed,         \* wire run, history: the frames read_message has returned
    drain_lock      \* RawConnection._drain_lock: held or not, and who waits

vars == << buffers, stream_queue, loop, nframes, arrived, announced, dispatched,
           returned, task, last, next_id, out, closed, reset, cin, cwire, cdec, cpc,
           flight, sent, routed, drain_lock >>

muxVars == << buffers, stream_queue, loop, nframes, arrived, announced, dispatched,
              returned, task, last, next_id, out, closed, reset >>

codecVars == << cin, cwire, cdec, cpc >>

wireVars == << flight, sent, routed >>

rawVars == << drain_lock >>

-----------------------------------------------------------------------------
(* Bounds of the model.                                                    *)

MaxPayloadLen == 2      \* codec run: payloads of every length up to this
LongPayloadLen == 128   \* codec run: one payload whose length needs a 2-byte varint
CodecIdBits == 12       \* codec run: stream ids 2^k - 1 and 2^k up to this k
MaxOpens == 2           \* open_stream calls made on the connection
MaxFrames == 2          \* frames read_message returns
MaxWrites == 1          \* stream writes (send_message with data) made
NumTasks == 2           \* caller tasks running beside handle_incoming

-----------------------------------------------------------------------------
(* Python values.                                                          *)

\* Python's None where an int is expected (read_message: "return None, None, None").
None == -1

\* Python's None where bytes are expected; no byte string is <<None>>.
NoneBytes == << None >>

\* HeaderTags.NewStream.value
NewStream == 0

Min(a, b) == IF a < b THEN a ELSE b

Take(s, n) == SubSeq(s, 1, Min(n, Len(s)))

Drop(s, n) == SubSeq(s, Min(n, Len(s)) + 1, Len(s))

-----------------------------------------------------------------------------
(* The frame codec: send_message's encoding and read_message's decoding.   *)

\* utils.encode_uvarint: 7 bits a byte, least significant group first, the
\* high bit set on every byte but the last.
RECURSIVE EncodeUvarint(_)
EncodeUvarint(number) ==
    IF number \div 128 # 0
    THEN << (number % 128) + 128 >> \o EncodeUvarint(number \div 128)
    ELSE << number % 128 >>

\* utils.decode_uvarint_from_stream's loop over reader.read(1): `mult` is
\* 2^shift. ok is FALSE when the bytes run out before a byte without the high
\* bit: the read waits and asyncio.wait_for raises TimeoutError.
RECURSIVE DecodeUvarintFrom(_, _, _)
DecodeUvarintFrom(bytes, mult, result) ==
    IF bytes = << >>
    THEN [ok |-> FALSE, value |-> result, rest |-> << >>]
    ELSE LET i == Head(bytes)
             r == result + (i % 128) * mult
         IN  IF i \div 128 = 0
             THEN [ok |-> TRUE, value |-> r, rest |-> Tail(bytes)]
             ELSE DecodeUvarintFrom(Tail(bytes), mult * 128, r)

DecodeUvarint(bytes) == DecodeUvarintFrom(bytes, 1, 0)

\* send_message: header = (stream_id << 3) | flag.value
HeaderOfShiftTwo(stream_id, flag) == stream_id * 4 + flag

HeaderOf(stream_id, flag) == stream_id * 8 + flag

\* read_message: flag = header & 0x07
HeaderFlagTwoBits(header) == header % 4

HeaderFlag(header) == header % 8

\* read_message: stream_id = header >> 3
HeaderStreamId(header) == header \div 8

\* send_message: the bytes handed to write_to_stream. data is NoneBytes for
\* Python's None.
SendMessageBytes(flag, data, stream_id) ==
    LET header == EncodeUvarint(HeaderOf(stream_id, flag))
    IN  IF data = NoneBytes
        THEN header \o EncodeUvarint(0)
        ELSE header \o EncodeUvarint(Len(data)) \o data

\* What read_message returns on asyncio.TimeoutError.
NoMessage == [stream_id |-> None, flag |-> None, message |-> NoneBytes]

\* read_message on a reader that holds `avail` and receives nothing more
\* before the timeouts: the frame returned and the bytes left in the reader.
\* reader.read(length) returns at once with up to `length` of the bytes it
\* holds (b"" for length 0) and waits when it holds none.
ReadMessage(avail) ==
    LET h == DecodeUvarint(avail)
        l == DecodeUvarint(h.rest)
    IN  IF ~h.ok \/ ~l.ok \/ (l.value > 0 /\ l.rest = << >>)
        THEN [frame |-> NoMessage, rest |-> << >>]
        ELSE [frame |-> [stream_id |-> HeaderStreamId(h.value),
                         flag      |-> HeaderFlag(h.value),
                         message   |-> Take(l.rest, l.value)],
              rest  |-> Drop(l.rest, l.value)]

-----------------------------------------------------------------------------
(* Stream ids. Each peer allocates ids from its own half of the id space    *)
(* (the connection's counter is "shared so the two peers never collide"):   *)
(* here the local counter gives 0, 2, 4, ... and the remote peer 1, 3, ...  *)

\* HeaderTags.MessageInitiator.value: the flag of a data frame
MessageInitiator == 2

Tasks == 1 .. NumTasks

LocalIds == { 2 * i : i \in 0 .. MaxOpens - 1 }

\* The ids of the streams the remote peer opens.
RemoteIds == { 1, 3 }

\* An id no stream has: never in the stream table.
AbsentId == 2 * MaxOpens + 5

StreamIds == LocalIds \cup RemoteIds \cup { AbsentId }

\* The non-empty payloads of inbound frames and the data of stream writes.
Chunks == { << 1 >>, << 2 >> }

InFlags == { NewStream, MessageInitiator }

\* MplexStream(stream_id, initiator, self)
MplexStream(stream_id, initiator) ==
    [stream_id |-> stream_id, initiator |-> initiator]

NoStream == [stream_id |-> None, initiator |-> FALSE]

\* A caller task: between calls, or suspended in the await of a call (op) on
\* a stream id (arg), holding the stream it has built (open_stream).
Idle == [op |-> "none", arg |-> None, st |-> "idle", stream |-> NoStream]

Suspended(op, arg) == [Idle EXCEPT !.op = op, !.arg = arg, !.st = "suspended"]

\* A task can start a call when it is not inside one.
Free(t) == task[t].st = "idle"

\* The outcome of a call: st is "raised" or "returned"; val is the exception
\* raised, or for a read that returned "chunk" (the chunk is then the last of
\* returned[stream id]) or "none" (Python's None); stream is the stream
\* open_stream returned.
NoCall == [op |-> "none", st |-> "none", val |-> "", stream |-> NoStream]

Raised(op, exc) == [NoCall EXCEPT !.op = op, !.st = "raised", !.val = exc]

Returned(op, val) == [NoCall EXCEPT !.op = op, !.st = "returned", !.val = val]

-----------------------------------------------------------------------------
(* The initial state: Mplex.__init__ has run, handle_incoming is scheduled. *)

InitMux ==
    /\ buffers = << >>
    /\ stream_queue = << >>
    /\ loop = [pc |-> "read_message", frame |-> NoMessage]
    /\ nframes = 0
    /\ arrived = [s \in StreamIds |-> << >>]
    /\ announced = << >>
    /\ dispatched = << >>
    /\ returned = [s \in StreamIds |-> << >>]
    /\ task = [t \in Tasks |-> Idle]
    /\ last = NoCall
    /\ next_id = 0
    /\ out = << >>
    /\ closed = FALSE
    /\ reset = FALSE

InitCodecIdle ==
    /\ cin = [flag |-> NewStream, data |-> NoneBytes, stream_id |-> 0]
    /\ cwire = << >>
    /\ cdec = NoMessage
    /\ cpc = "idle"

\* No byte has been written by the peer.
InitWireIdle ==
    /\ flight = << >>
    /\ sent = << >>
    /\ routed = << >>

\* RawConnection.__init__, line 24: self._drain_lock = asyncio.Lock()
InitRaw ==
    drain_lock = [locked |-> FALSE, waiters |-> << >>]

Init == InitMux /\ InitCodecIdle /\ InitWireIdle /\ InitRaw

-----------------------------------------------------------------------------
(* The stream table.                                                       *)

\* self.buffers[stream_id] = asyncio.Queue()
NewQueue(bufs, stream_id) ==
    [s \in DOMAIN bufs \cup { stream_id } |-> IF s = stream_id THEN << >> ELSE bufs[s]]

\* self.buffers[stream_id].put(message): the queue is unbounded, put never waits
QueuePut(bufs, stream_id, message) ==
    [bufs EXCEPT ![stream_id] = Append(@, message)]

\* self.buffers[stream_id].get() on a queue that holds something
QueuePeek(bufs, stream_id) == bufs

QueueGet(bufs, stream_id) ==
    [bufs EXCEPT ![stream_id] = Tail(@)]

-----------------------------------------------------------------------------
(* handle_incoming: the demultiplex loop.                                  *)

\* The frames read_message can return: the remote peer addresses its own
\* streams and the streams this side has opened.
InFrames ==
    { [stream_id |-> s, flag |-> f, message |-> m] :
        s \in RemoteIds \cup (LocalIds \cap DOMAIN buffers),
        f \in InFlags,
        m \in { << >> } \cup Chunks }

\* handle_incoming, lines 166-169: a frame for an id without a record creates
\* the record and queues the id for accept_stream.
UnseenOrNewStream(frame) ==
    frame.stream_id \notin DOMAIN buffers \/ frame.flag = NewStream

Unseen(frame) == frame.stream_id \notin DOMAIN buffers

RegisteredBuffers(frame) ==
    IF Unseen(frame) THEN NewQueue(buffers, frame.stream_id) ELSE buffers

PendingAfter(frame) ==
    IF Unseen(frame) THEN Append(stream_queue, frame.stream_id) ELSE stream_queue

\* accept_stream, line 123: the id it takes from stream_queue.
AcceptedId(pending) == Head(pending)

\* handle_incoming, lines 175-176: "if message: put".
Routed(bufs, frame) ==
    IF frame.message # << >>
    THEN QueuePut(bufs, frame.stream_id, frame.message)
    ELSE bufs

\* accept_stream, line 125: where the loop is suspended next, having handled
\* `frame`, when the handler was dispatched for it. ensure_future schedules
\* the handler as a task of its own and returns at once: the loop goes on to
\* line 175 and to its yield. (Awaited, the handler would hold the loop with
\* the frame until it finished.)
AfterDispatchAwaited(frame) == [pc |-> "handler", frame |-> frame]

AfterDispatch(frame) == [pc |-> "sleep", frame |-> NoMessage]

\* One iteration of the loop from the return of read_message with a frame to
\* the next suspension: asyncio.sleep(0), or stream_queue.get() on an empty
\* stream_queue inside accept_stream. Only this loop puts into stream_queue,
\* so a loop suspended there is never resumed.
HandleFrame(frame) ==
    LET bufs == RegisteredBuffers(frame)
        pending == PendingAfter(frame)
    IN  IF frame.flag = NewStream /\ pending = << >>
        THEN /\ buffers' = bufs
             /\ stream_queue' = pending
             /\ loop' = [pc |-> "accept_stream", frame |-> frame]
             /\ UNCHANGED dispatched
        ELSE /\ stream_queue' =
                    IF frame.flag = NewStream THEN Tail(pending) ELSE pending
             /\ dispatched' =
                    IF frame.flag = NewStream
                    THEN Append(dispatched, MplexStream(AcceptedId(pending), FALSE))
                    ELSE dispatched
             /\ LET after == IF frame.flag = NewStream
                              THEN AfterDispatch(frame)
                              ELSE [pc |-> "sleep", frame |-> NoMessage]
                IN  /\ loop' = after
                    /\ buffers' = IF after.pc = "sleep"
                                  THEN Routed(bufs, frame)
                                  ELSE bufs

\* read_message returns a frame and the loop handles it.
LoopFrame ==
    /\ loop.pc = "read_message"
    /\ ~reset
    /\ nframes < MaxFrames
    /\ \E frame \in InFrames :
        /\ nframes' = nframes + 1
        /\ arrived' = IF frame.message # << >>
                      THEN [arrived EXCEPT ![frame.stream_id] = Append(@, frame.message)]
                      ELSE arrived
        /\ announced' = IF frame.flag = NewStream
                        THEN Append(announced, frame.stream_id)
                        ELSE announced
        /\ HandleFrame(frame)
    /\ UNCHANGED << returned, task, last, next_id, out, closed, reset >>
    /\ UNCHANGED << codecVars, wireVars, rawVars >>

\* read_message times out and returns (None, None, None): nothing is routed.
LoopTimeout ==
    /\ loop.pc = "read_message"
    /\ ~reset
    /\ loop' = [pc |-> "sleep", frame |-> NoMessage]
    /\ UNCHANGED << buffers, stream_queue, nframes, arrived, announced, dispatched,
                    returned, task, last, next_id, out, closed, reset >>
    /\ UNCHANGED << codecVars, wireVars, rawVars >>

\* read_message raises something other than asyncio.TimeoutError (the reader of
\* a reset or closed transport): handle_incoming does not catch it and the
\* task ends.
LoopFail ==
    /\ loop.pc = "read_message"
    /\ reset \/ closed
    /\ loop' = [pc |-> "dead", frame |-> NoMessage]
    /\ UNCHANGED << buffers, stream_queue, nframes, arrived, announced, dispatched,
                    returned, task, last, next_id, out, closed, reset >>
    /\ UNCHANGED << codecVars, wireVars, rawVars >>

\* await asyncio.sleep(0), line 179: the loop is rescheduled.
LoopYield ==
    /\ loop.pc = "sleep"
    /\ loop' = [pc |-> "read_message", frame |-> NoMessage]
    /\ UNCHANGED << buffers, stream_queue, nframes, arrived, announced, dispatched,
                    returned, task, last, next_id, out, closed, reset >>
    /\ UNCHANGED << codecVars, wireVars, rawVars >>

-----------------------------------------------------------------------------
(* read_buffer and read_buffer_nonblocking.                                *)

\* read_buffer, lines 88-89, and read_buffer_nonblocking, lines 97-98: the
\* outcome of a call with a stream id that is not in self.buffers.
NotFoundAsNone(op) == Returned(op, "none")

NotFound(op) == Raised(op, "StreamNotFound")

\* The chunks a read returns are recorded per stream, in the order returned.
Deliver(stream_id) ==
    /\ buffers' = QueueGet(buffers, stream_id)
    /\ returned' = [returned EXCEPT ![stream_id] = Append(@, Head(buffers[stream_id]))]

\* The stream ids callers read with: those of the stream table, those the
\* remote side may announce, and one no side ever uses.
ReadIds == DOMAIN buffers \cup RemoteIds \cup { AbsentId }

\* read_buffer(stream_id), lines 88-90, up to its return or to the suspension
\* of Queue.get() on an empty queue.
ReadBuffer(t, stream_id) ==
    /\ Free(t)
    /\ IF stream_id \notin DOMAIN buffers
       THEN /\ last' = NotFound("read_buffer")
            /\ UNCHANGED << buffers, returned, task >>
       ELSE IF buffers[stream_id] = << >>
       THEN /\ task' = [task EXCEPT ![t] = Suspended("read_buffer", stream_id)]
            /\ UNCHANGED << buffers, returned, last >>
       ELSE /\ last' = Returned("read_buffer", "chunk")
            /\ Deliver(stream_id)
            /\ UNCHANGED task
    /\ UNCHANGED << stream_queue, loop, nframes, arrived, announced, dispatched,
                    next_id, out, closed, reset >>
    /\ UNCHANGED << codecVars, wireVars, rawVars >>

\* Queue.get(), line 90: a task suspended in it runs again once the queue
\* holds a chunk.
WokenAtTwo(queue) == Len(queue) >= 2

Woken(queue) == queue # << >>

\* The task woken finds the chunk still there and returns it. (When another
\* read has taken it meanwhile, get() waits again: the task stays suspended.)
ReadBufferResume(t) ==
    /\ task[t].st = "suspended"
    /\ task[t].op = "read_buffer"
    /\ Woken(buffers[task[t].arg])
    /\ task' = [task EXCEPT ![t] = Idle]
    /\ last' = Returned("read_buffer", "chunk")
    /\ Deliver(task[t].arg)
    /\ UNCHANGED << stream_queue, loop, nframes, arrived, announced, dispatched,
                    next_id, out, closed, reset >>
    /\ UNCHANGED << codecVars, wireVars, rawVars >>

\* read_buffer_nonblocking, lines 99-101: what the call does on a queue it has
\* found: "wait" when it would suspend in Queue.get(), "none" when it returns
\* None, "chunk" when it returns the head of the queue. Nothing runs between
\* empty() and get(), so get() finds the queue as empty() saw it.
NonblockingOutcomeBlocking(queue) == IF queue = << >> THEN "wait" ELSE "chunk"

NonblockingOutcome(queue) == IF queue = << >> THEN "none" ELSE "chunk"

ReadBufferNonblocking(t, stream_id) ==
    /\ Free(t)
    /\ IF stream_id \notin DOMAIN buffers
       THEN /\ last' = NotFound("read_buffer_nonblocking")
            /\ UNCHANGED << buffers, returned, task >>
       ELSE LET outcome == NonblockingOutcome(buffers[stream_id])
            IN  IF outcome = "chunk"
                THEN /\ last' = Returned("read_buffer_nonblocking", "chunk")
                     /\ Deliver(stream_id)
                     /\ UNCHANGED task
                ELSE IF outcome = "none"
                THEN /\ last' = Returned("read_buffer_nonblocking", "none")
                     /\ UNCHANGED << buffers, returned, task >>
                ELSE /\ task' = [task EXCEPT ![t] =
                                     Suspended("read_buffer_nonblocking", stream_id)]
                     /\ UNCHANGED << buffers, returned, last >>
    /\ UNCHANGED << stream_queue, loop, nframes, arrived, announced, dispatched,
                    next_id, out, closed, reset >>
    /\ UNCHANGED << codecVars, wireVars, rawVars >>

-----------------------------------------------------------------------------
(* open_stream, send_message, write_to_stream.                             *)

\* conn.next_stream_id(): the id it returns and the counter it leaves. The
\* call does not suspend.
NextStreamId(counter) == counter

CounterAfter(counter) == counter + 2

\* open_stream, line 113: stream_id = self.conn.next_stream_id()
AllocatedIdByCount(counter) == Cardinality(DOMAIN buffers)

AllocatedId(counter) == NextStreamId(counter)

\* write_to_stream, line 153: conn.writer.write(_bytes)
Written(wire, bytes) == Append(wire, bytes)

\* A task inside "await self.conn.writer.drain()", line 154.
InDrain(t) ==
    /\ task[t].st = "suspended"
    /\ task[t].op \in { "open_stream", "send_message" }

\* open_stream, lines 113-116, up to the suspension in drain().
OpenStream(t) ==
    /\ Free(t)
    /\ next_id < 2 * MaxOpens
    /\ LET stream_id == AllocatedId(next_id)
           bytes == SendMessageBytes(NewStream, NoneBytes, stream_id)
       IN  /\ next_id' = CounterAfter(next_id)
           /\ buffers' = NewQueue(buffers, stream_id)
           /\ out' = Written(out, bytes)
           /\ task' = [task EXCEPT ![t] =
                           [Suspended("open_stream", stream_id) EXCEPT
                               !.stream = MplexStream(stream_id, TRUE)]]
    /\ UNCHANGED << stream_queue, loop, nframes, arrived, announced, dispatched,
                    returned, last, closed, reset >>
    /\ UNCHANGED << codecVars, wireVars, rawVars >>

\* A stream write: send_message(flag, data, stream_id) called through a stream
\* handle, lines 135-145 and 153, up to the suspension in drain().
SendMessage(t, stream_id, data) ==
    /\ Free(t)
    /\ stream_id \in DOMAIN buffers
    /\ Len(out) - next_id \div 2 < MaxWrites
    /\ LET bytes == SendMessageBytes(MessageInitiator, data, stream_id)
       IN  /\ out' = Written(out, bytes)
           /\ task' = [task EXCEPT ![t] = Suspended("send_message", stream_id)]
    /\ UNCHANGED << buffers, stream_queue, loop, nframes, arrived, announced,
                    dispatched, returned, last, next_id, closed, reset >>
    /\ UNCHANGED << codecVars, wireVars, rawVars >>

\* drain() completes: it raises ConnectionResetError on a lost connection,
\* otherwise write_to_stream returns len(_bytes) and open_stream its stream.
DrainReturn(t) ==
    /\ InDrain(t)
    /\ task' = [task EXCEPT ![t] = Idle]
    /\ last' = IF closed \/ reset
               THEN Raised(task[t].op, "ConnectionResetError")
               ELSE [Returned(task[t].op, "") EXCEPT !.stream = task[t].stream]
    /\ UNCHANGED << buffers, stream_queue, loop, nframes, arrived, announced,
                    dispatched, returned, next_id, out, closed, reset >>
    /\ UNCHANGED << codecVars, wireVars, rawVars >>

-----------------------------------------------------------------------------
(* close, is_closed, and the transport's reset.                            *)

\* close(), line 72: self.conn.close(), and nothing else.
Close(t) ==
    /\ Free(t)
    /\ closed' = TRUE
    /\ last' = Returned("close", "none")
    /\ UNCHANGED << buffers, stream_queue, loop, nframes, arrived, announced,
                    dispatched, returned, task, next_id, out, reset >>
    /\ UNCHANGED << codecVars, wireVars, rawVars >>

\* is_closed(), line 79: what the call does.
IsClosedOutcome == Raised("is_closed", "NotImplementedError")

IsClosed(t) ==
    /\ Free(t)
    /\ last' = IsClosedOutcome
    /\ UNCHANGED << buffers, stream_queue, loop, nframes, arrived, announced,
                    dispatched, returned, task, next_id, out, closed, reset >>
    /\ UNCHANGED << codecVars, wireVars, rawVars >>

\* The transport reports a connection reset.
Reset ==
    /\ ~reset
    /\ reset' = TRUE
    /\ UNCHANGED << buffers, stream_queue, loop, nframes, arrived, announced,
                    dispatched, returned, task, last, next_id, out, closed >>
    /\ UNCHANGED << codecVars, wireVars, rawVars >>

-----------------------------------------------------------------------------
(* The multiplexer.                                                        *)

Next ==
    \/ LoopFrame
    \/ LoopTimeout
    \/ LoopFail
    \/ LoopYield
    \/ Reset
    \/ \E t \in Tasks :
        \/ \E s \in ReadIds : ReadBuffer(t, s)
        \/ ReadBufferResume(t)
        \/ \E s \in ReadIds : ReadBufferNonblocking(t, s)
        \/ OpenStream(t)
        \/ \E s \in StreamIds, d \in Chunks : SendMessage(t, s, d)
        \/ DrainReturn(t)
        \/ Close(t)
        \/ IsClosed(t)

Spec == Init /\ [][Next]_vars

-----------------------------------------------------------------------------
(* Spec is every operation against every other. The properties below are   *)
(* checked on parts of it, each the loop or the transport together with the *)
(* calls a property is about, so that the bounds can be large enough for    *)
(* the cases to happen. In each part the calls left out are calls no caller *)
(* makes.                                                                   *)

\* The demultiplex loop and the readers of its queues.
NextDemux ==
    \/ LoopFrame
    \/ LoopTimeout
    \/ LoopYield
    \/ \E t \in Tasks :
        \/ \E s \in ReadIds : ReadBuffer(t, s)
        \/ ReadBufferResume(t)
        \/ \E s \in ReadIds : ReadBufferNonblocking(t, s)

SpecDemux == Init /\ [][NextDemux]_vars

\* The demultiplex loop and the callers of open_stream.
NextOpen ==
    \/ LoopFrame
    \/ LoopTimeout
    \/ LoopYield
    \/ \E t \in Tasks :
        \/ OpenStream(t)
        \/ DrainReturn(t)

SpecOpen == Init /\ [][NextOpen]_vars

\* The writers of the transport: open_stream and stream writes, with the
\* transport closed or reset under them.
NextWrite ==
    \/ Reset
    \/ \E t \in Tasks :
        \/ OpenStream(t)
        \/ \E s \in StreamIds, d \in Chunks : SendMessage(t, s, d)
        \/ DrainReturn(t)
        \/ Close(t)

SpecWrite == Init /\ [][NextWrite]_vars

\* The end of the connection: close, is_closed and a reset, with the loop,
\* readers and open_stream running.
NextClose ==
    \/ LoopFrame
    \/ LoopTimeout
    \/ LoopFail
    \/ LoopYield
    \/ Reset
    \/ \E t \in Tasks :
        \/ \E s \in ReadIds : ReadBuffer(t, s)
        \/ ReadBufferResume(t)
        \/ OpenStream(t)
        \/ DrainReturn(t)
        \/ Close(t)
        \/ IsClosed(t)

SpecClose == Init /\ [][NextClose]_vars

-----------------------------------------------------------------------------
(* The codec run: one frame encoded by send_message onto an idle wire and   *)
(* decoded by read_message with all of its bytes in the reader.             *)

RECURSIVE Pow2(_)
Pow2(k) == IF k = 0 THEN 1 ELSE 2 * Pow2(k - 1)

CodecIds == { 0 } \cup { Pow2(k) - 1 : k \in 0 .. CodecIdBits }
                \cup { Pow2(k) : k \in 0 .. CodecIdBits }

CodecFlags == 0 .. 7

\* Payload bytes: one below and one above the varint continuation bit.
CodecBytes == { 5, 200 }

CodecPayloads ==
    UNION { [1 .. n -> CodecBytes] : n \in 0 .. MaxPayloadLen }
        \cup { [i \in 1 .. LongPayloadLen |-> 200] }

InitCodec ==
    /\ InitMux
    /\ InitWireIdle
    /\ InitRaw
    /\ cin \in [flag : CodecFlags, data : CodecPayloads \cup { NoneBytes },
                stream_id : CodecIds]
    /\ cwire = << >>
    /\ cdec = NoMessage
    /\ cpc = "start"

\* send_message(flag, data, stream_id) hands its bytes to the writer.
CodecSend ==
    /\ cpc = "start"
    /\ cwire' = cwire \o SendMessageBytes(cin.flag, cin.data, cin.stream_id)
    /\ cpc' = "sent"
    /\ UNCHANGED << cin, cdec >>
    /\ UNCHANGED << muxVars, wireVars, rawVars >>

\* read_message() reads them.
CodecRead ==
    /\ cpc = "sent"
    /\ cdec' = ReadMessage(cwire).frame
    /\ cwire' = ReadMessage(cwire).rest
    /\ cpc' = "read"
    /\ UNCHANGED cin
    /\ UNCHANGED << muxVars, wireVars, rawVars >>

NextCodec == CodecSend \/ CodecRead

SpecCodec == InitCodec /\ [][NextCodec]_vars

-----------------------------------------------------------------------------
(* Properties of the demultiplex loop and its readers (SpecDemux).          *)

QueueOf(stream_id) ==
    IF stream_id \in DOMAIN buffers THEN buffers[stream_id] ELSE << >>

\* C1: per-stream FIFO. For every stream id, the chunks reads have returned,
\* followed by the chunks still queued, are the non-empty payloads of the
\* frames received for that id, in the order received: none reordered,
\* duplicated or dropped. (The loop handles a frame without suspending, so a
\* payload it has received and not queued is one it holds while suspended in
\* accept_stream, where nothing resumes it.)
C1_PerStreamFifo ==
    \A s \in StreamIds : arrived[s] = returned[s] \o QueueOf(s)

\* C2: new-stream dispatch. The handler has been invoked once for each
\* NewStream frame received, in order, each time with a receiver-side stream
\* of that frame's id.
C2_NewStreamDispatch ==
    dispatched = [i \in 1 .. Len(announced) |-> MplexStream(announced[i], FALSE)]

\* C6: unknown id lookup. A read_buffer or read_buffer_nonblocking call with a
\* stream id that is not in the stream table raises StreamNotFound and leaves
\* the stream table, every queue and stream_queue as they were.
C6_UnknownIdLookup ==
    [][\A t \in Tasks, s \in ReadIds \ DOMAIN buffers :
        (ReadBuffer(t, s) \/ ReadBufferNonblocking(t, s))
        => /\ last'.st = "raised"
           /\ last'.val = "StreamNotFound"
           /\ task' = task
           /\ buffers' = buffers
           /\ stream_queue' = stream_queue
           /\ returned' = returned]_vars

C6_Witness ==
    /\ last.st = "raised"
    /\ last.val = "StreamNotFound"
    /\ \E s \in DOMAIN buffers : buffers[s] # << >>
    /\ stream_queue # << >>
    /\ \E t \in Tasks : task[t].st = "suspended"

\* C8: read_buffer_nonblocking never suspends. Called with the id of an
\* existing stream, in any state the loop and the other readers have left, it
\* returns in the same step: None when the queue is empty, else the oldest
\* chunk of the queue, which it removes.
C8_NonblockingNeverSuspends ==
    [][\A t \in Tasks, s \in DOMAIN buffers :
        ReadBufferNonblocking(t, s)
        => /\ task' = task
           /\ last'.st = "returned"
           /\ IF buffers[s] = << >>
              THEN /\ last'.val = "none"
                   /\ buffers' = buffers
                   /\ returned' = returned
              ELSE /\ last'.val = "chunk"
                   /\ returned' = [returned EXCEPT ![s] = Append(@, Head(buffers[s]))]
                   /\ buffers' = [buffers EXCEPT ![s] = Tail(@)]]_vars

C8_Witness ==
    /\ last = Returned("read_buffer_nonblocking", "chunk")
    /\ loop.pc = "sleep"
    /\ \E s \in DOMAIN buffers : returned[s] # << >> /\ buffers[s] # << >>
    /\ \E t \in Tasks : task[t].st = "suspended"

-----------------------------------------------------------------------------
(* Properties of open_stream (SpecOpen).                                    *)

\* The stream ids of the frames written to the transport so far.
WrittenIds == { ReadMessage(out[i]).frame.stream_id : i \in 1 .. Len(out) }

\* C3: unique id allocation. With open_stream calls interleaved at their
\* suspension in drain(), the id a call allocates is the id of no stream
\* another task holds, of no NewStream frame written by an earlier call, and
\* of no queue already in the stream table: no call overwrites a queue
\* registered before it.
C3_UniqueIdAllocation ==
    [][\A t \in Tasks :
        OpenStream(t)
        => LET n == task'[t].stream.stream_id
           IN  /\ n \notin DOMAIN buffers
               /\ n \notin WrittenIds
               /\ \A u \in Tasks \ { t } : task[u].stream.stream_id # n]_vars

C3_Witness ==
    \E t, u \in Tasks :
        /\ t # u
        /\ InDrain(t) /\ task[t].op = "open_stream"
        /\ InDrain(u) /\ task[u].op = "open_stream"
        /\ task[t].stream.stream_id # task[u].stream.stream_id

\* C9: open_stream's effect and its order. Up to its first suspension the call
\* allocates an id n, registers an empty queue for n, writes one frame that
\* decodes to (n, NewStream, empty payload) and nothing else, and holds a
\* stream bound to n as initiator; resumed, it returns that stream, writes
\* nothing more, and n is in the stream table.
C9_OpenStreamEffect ==
    [][\A t \in Tasks :
        /\ OpenStream(t)
           => LET n == task'[t].arg
              IN  /\ task'[t].st = "suspended"
                  /\ n \in DOMAIN buffers'
                  /\ buffers'[n] = << >>
                  /\ Len(out') = Len(out) + 1
                  /\ SubSeq(out', 1, Len(out)) = out
                  /\ ReadMessage(out'[Len(out')]) =
                        [frame |-> [stream_id |-> n, flag |-> NewStream,
                                    message |-> << >>],
                         rest  |-> << >>]
                  /\ task'[t].stream = MplexStream(n, TRUE)
        /\ (DrainReturn(t) /\ task[t].op = "open_stream" /\ last'.st = "returned")
           => /\ last'.op = "open_stream"
              /\ last'.stream = MplexStream(task[t].arg, TRUE)
              /\ task[t].arg \in DOMAIN buffers'
              /\ out' = out]_vars

C9_Witness ==
    /\ last.op = "open_stream"
    /\ last.st = "returned"
    /\ last.stream = MplexStream(2, TRUE)
    /\ Len(out) = 2
    /\ nframes > 0

-----------------------------------------------------------------------------
(* Properties of the write path (SpecWrite).                                *)

\* C4: outbound write serialization. At most one task is inside the
\* transport's drain() at any time.
C4_WriteSerialization ==
    Cardinality({ t \in Tasks : InDrain(t) }) <= 1

-----------------------------------------------------------------------------
(* Properties of the end of the connection (SpecClose).                     *)

\* A task suspended in read_buffer's Queue.get().
BlockedInRead(t) ==
    /\ task[t].st = "suspended"
    /\ task[t].op = "read_buffer"

\* C5: close cascade. Once close() has been called, no read stays blocked
\* forever: a task is not left suspended in read_buffer on an empty queue
\* when the loop, the only task that fills the queues, has ended.
C5_CloseCascade ==
    (closed /\ loop.pc = "dead")
    => \A t \in Tasks : BlockedInRead(t) => buffers[task[t].arg] # << >>

\* C10: is_closed() returns a boolean: True after close() or after the
\* transport has reported a reset, False while the connection is up.
C10_IsClosed ==
    [][\A t \in Tasks :
        IsClosed(t)
        => /\ last'.st = "returned"
           /\ last'.val = (IF closed \/ reset THEN "True" ELSE "False")]_vars

-----------------------------------------------------------------------------
(* Properties of the frame codec (SpecCodec).                               *)

\* C7: frame round trip. read_message, given the bytes send_message wrote for
\* (flag, data, stream_id), returns (stream_id, flag, data), with the empty
\* payload for an absent one, and leaves no byte on the wire.
C7_RoundTrip ==
    cpc = "read"
    => /\ cdec = [stream_id |-> cin.stream_id,
                  flag      |-> cin.flag,
                  message   |-> IF cin.data = NoneBytes THEN << >> ELSE cin.data]
       /\ cwire = << >>

C7_Witness ==
    /\ cpc = "read"
    /\ cin.stream_id >= 16
    /\ cin.flag = 7
    /\ Len(cin.data) = LongPayloadLen
    /\ cdec.message = cin.data

-----------------------------------------------------------------------------
(* More properties of the demultiplex loop and its readers (SpecDemux).     *)

\* C11: the loop suspends only in read_message and in its own yield: it is
\* never suspended inside accept_stream, waiting on an empty stream_queue
\* with a frame in hand, so every frame received is handled to the end.
C11_LoopNeverWaitsOnPending ==
    loop.pc # "accept_stream"

-----------------------------------------------------------------------------
(* More properties of the end of the connection (SpecClose).                *)

\* C12: a transport reset raised in the loop's decode ends the loop and marks
\* every stream Reset, so that every stream shows it: once the loop has ended
\* on a reset, a read_buffer on a stream whose queue is empty reports the
\* reset (it raises, or returns an end-of-stream mark) instead of suspending.
C12_ResetMarksStreams ==
    [][\A t \in Tasks, s \in DOMAIN buffers :
        (reset /\ loop.pc = "dead" /\ buffers[s] = << >> /\ ReadBuffer(t, s))
        => /\ task' = task
           /\ last'.op = "read_buffer"
           /\ last'.st \in { "raised", "returned" }]_vars

-----------------------------------------------------------------------------
(* The wire run: the peer writes frames with send_message's encoding, their *)
(* bytes reach this side's reader in pieces of any size, and the loop's     *)
(* read_message decodes what the reader holds when its waits end. Bytes     *)
(* that arrive while read_message waits are bytes it finds in the reader,   *)
(* so every timing of arrival is an interleaving of Arrive and WireRead.    *)
(* cwire is the reader's buffer.                                            *)

MaxWireFrames == 2      \* wire run: frames the peer writes

WirePayloads == { << >>, << 1 >>, << 1, 2 >> }

WireFrames ==
    { [stream_id |-> s, flag |-> f, message |-> m] :
        s \in RemoteIds, f \in InFlags, m \in WirePayloads }

\* The peer writes one frame.
PeerWrite(frame) ==
    /\ Len(sent) < MaxWireFrames
    /\ sent' = Append(sent, frame)
    /\ flight' = flight \o SendMessageBytes(frame.flag, frame.message, frame.stream_id)
    /\ UNCHANGED << routed, cin, cwire, cdec, cpc >>
    /\ UNCHANGED << muxVars, rawVars >>

\* The next n bytes written reach the reader.
Arrive(n) ==
    /\ cwire' = cwire \o Take(flight, n)
    /\ flight' = Drop(flight, n)
    /\ UNCHANGED << sent, routed, cin, cdec, cpc >>
    /\ UNCHANGED << muxVars, rawVars >>

\* read_message, line 193: the length its second varint declares.
DeclaredLength(avail) == DecodeUvarint(DecodeUvarint(avail).rest).value

\* One call of read_message by the loop, lines 164-176: on a timeout the
\* bytes already taken from the reader are dropped with the call's locals
\* and the loop goes to its yield; a frame is kept in the history with the
\* length it declared, and handled.
WireRead ==
    /\ loop.pc = "read_message"
    /\ LET r == ReadMessage(cwire)
       IN  /\ cwire' = r.rest
           /\ IF r.frame = NoMessage
              THEN /\ loop' = [pc |-> "sleep", frame |-> NoMessage]
                   /\ UNCHANGED << buffers, stream_queue, dispatched, routed >>
              ELSE /\ routed' = Append(routed, [frame    |-> r.frame,
                                                declared |-> DeclaredLength(cwire)])
                   /\ HandleFrame(r.frame)
    /\ UNCHANGED << nframes, arrived, announced, returned, task, last, next_id,
                    out, closed, reset >>
    /\ UNCHANGED << flight, sent, cin, cdec, cpc >>
    /\ UNCHANGED rawVars

NextWire ==
    \/ \E frame \in WireFrames : PeerWrite(frame)
    \/ \E n \in 1 .. Len(flight) : Arrive(n)
    \/ WireRead
    \/ LoopYield

SpecWire == Init /\ [][NextWire]_vars

\* C13: a decode failure is not a frame. The payload of every frame that
\* read_message returns, and that the loop routes to a queue, has the length
\* the frame declares: a payload cut short is reported as a failure.
C13_ShortPayloadIsFailure ==
    \A i \in 1 .. Len(routed) :
        Len(routed[i].frame.message) = routed[i].declared

\* C18: no bytes are lost on a timeout. Whatever the timing of arrival, once
\* every byte the peer wrote has arrived and been read, and no payload was
\* returned short, the frames read_message returned are the frames the peer
\* wrote, in order.
C18_NoBytesLost ==
    (/\ flight = << >>
     /\ cwire = << >>
     /\ \A i \in 1 .. Len(routed) :
            Len(routed[i].frame.message) = routed[i].declared)
    => [i \in 1 .. Len(routed) |-> routed[i].frame] = sent

-----------------------------------------------------------------------------
(* More properties of the demultiplex loop and its readers (SpecDemux).     *)

\* C14: handler dispatch is fire-and-forget. The step that dispatches the
\* handler for a NewStream frame does not wait for it: the same step queues
\* the frame's payload and leaves the loop at its yield, holding nothing, from
\* where it reads and routes the next frames while the handlers dispatched
\* (none of which ever finishes here) are still running.
C14_DispatchFireAndForget ==
    [][Len(dispatched') > Len(dispatched)
        => /\ loop'.pc = "sleep"
           /\ loop'.frame = NoMessage
           /\ \A s \in StreamIds :
                arrived'[s] # arrived[s]
                => /\ s \in DOMAIN buffers'
                   /\ buffers'[s] = Append(QueueOf(s), arrived'[s][Len(arrived'[s])])]_vars

\* The handler was dispatched for the NewStream frame of stream 1, and a
\* frame of stream 3 received after it has been routed.
C14_Witness ==
    /\ announced = << 1 >>
    /\ dispatched = << MplexStream(1, FALSE) >>
    /\ arrived[3] # << >>
    /\ 3 \in DOMAIN buffers
    /\ buffers[3] = arrived[3]

-----------------------------------------------------------------------------
(* More properties of open_stream beside the loop (SpecOpen).               *)

\* Every id pushed onto stream_queue so far, in the order pushed: the ids
\* accept_stream has popped, then the ids still queued.
Pushes ==
    [i \in 1 .. Len(dispatched) |-> dispatched[i].stream_id] \o stream_queue

-----------------------------------------------------------------------------
(* More properties of the demultiplex loop and its readers (SpecDemux).     *)

\* C16: payload routing. Handling a frame of stream s with a non-empty
\* payload appends the payload to the tail of s's queue and changes no other
\* queue; handling a frame with an empty payload changes no queue (a record
\* it creates has an empty queue); and no queue ever holds an empty chunk,
\* nor has a read returned one.
C16_PayloadRouting ==
    /\ [](\A s \in StreamIds :
            /\ \A i \in 1 .. Len(QueueOf(s)) : QueueOf(s)[i] # << >>
            /\ \A i \in 1 .. Len(returned[s]) : returned[s][i] # << >>)
    /\ [][nframes' # nframes
          => /\ \A s \in StreamIds, m \in Chunks :
                    arrived'[s] = Append(arrived[s], m)
                    => /\ s \in DOMAIN buffers'
                       /\ buffers'[s] = Append(QueueOf(s), m)
                       /\ \A u \in DOMAIN buffers \ { s } : buffers'[u] = buffers[u]
             /\ arrived' = arrived
                    => \A u \in DOMAIN buffers' : buffers'[u] = QueueOf(u)]_vars

\* The chunks put on a stream's queue so far: the non-empty payloads of its
\* frames, but for the one the loop holds, unqueued, while it is suspended in
\* accept_stream.
Enqueued(stream_id) ==
    IF /\ loop.pc = "accept_stream"
       /\ loop.frame.stream_id = stream_id
       /\ loop.frame.message # << >>
    THEN SubSeq(arrived[stream_id], 1, Len(arrived[stream_id]) - 1)
    ELSE arrived[stream_id]

\* C19: exactly-once delivery under concurrent readers. With any number of
\* read_buffer and read_buffer_nonblocking calls on one stream id running
\* beside the loop, at every state the chunks enqueued for the stream are the
\* chunks its reads have returned followed by the chunks still queued: each
\* chunk is returned by at most one call, and enqueued = returned + queued.
C19_ExactlyOnceDelivery ==
    \A s \in StreamIds : Enqueued(s) = returned[s] \o QueueOf(s)

\* One read of a stream has returned a chunk while another read of the same
\* stream is suspended on its queue, the loop running.
C19_Witness ==
    \E s \in DOMAIN buffers, t \in Tasks :
        /\ task[t] = Suspended("read_buffer", s)
        /\ returned[s] # << >>
        /\ last.st = "returned"
        /\ last.val = "chunk"
        /\ loop.pc # "accept_stream"

-----------------------------------------------------------------------------
(* The loop and its readers under asyncio's scheduling (SpecFair): a task  *)
(* that is ready to run does run. read_message returns within its bounded  *)
(* waits, sleep(0) returns, and a reader woken by a put runs. Nothing makes *)
(* the peer send a frame or a caller start a read.                          *)

SpecFair ==
    /\ Init
    /\ [][NextDemux]_vars
    /\ WF_vars(LoopFrame \/ LoopTimeout)
    /\ WF_vars(LoopYield)
    /\ \A t \in Tasks : WF_vars(ReadBufferResume(t))

-----------------------------------------------------------------------------
(* RawConnection.write, raw_connection.py lines 26-38: callers that write   *)
(* through the connection rather than through Mplex.write_to_stream.        *)

MaxRawWrites == 3       \* RawConnection.write calls that reach the writer

\* A task inside "await self.writer.drain()", line 36.
RawInDrain(t) ==
    /\ task[t].st = "suspended"
    /\ task[t].op = "write"

\* A task suspended in "async with self._drain_lock", line 34.
RawWaiting(t) ==
    /\ task[t].st = "suspended"
    /\ task[t].op = "write_lock"

\* "async with self._drain_lock", lines 34-38: the lock as the block leaves
\* it, by return or by the RawConnError raised at line 38.
ReleasedOnReturnOnly(lock, failed) ==
    IF failed THEN lock ELSE [lock EXCEPT !.locked = FALSE]

ReleasedOnExit(lock, failed) == [lock EXCEPT !.locked = FALSE]

\* write(data) up to its first suspension. writer.write either raises
\* ConnectionResetError on a lost connection (lines 29-30) or buffers the
\* data; then the lock is taken at once when it is free and nobody waits for
\* it, and the task suspends in drain(), or the task queues for the lock.
\* (A drain() that does not suspend is a drain() that returns at once.)
RawWrite(t, data) ==
    /\ Free(t)
    /\ Len(out) < MaxRawWrites
    /\ \/ /\ closed \/ reset
          /\ last' = Raised("write", "RawConnError (writer.write)")
          /\ UNCHANGED << out, task, drain_lock >>
       \/ /\ out' = Written(out, data)
          /\ IF ~drain_lock.locked /\ drain_lock.waiters = << >>
             THEN /\ drain_lock' = [drain_lock EXCEPT !.locked = TRUE]
                  /\ task' = [task EXCEPT ![t] = Suspended("write", None)]
             ELSE /\ drain_lock' = [drain_lock EXCEPT !.waiters = Append(@, t)]
                  /\ task' = [task EXCEPT ![t] = Suspended("write_lock", None)]
          /\ UNCHANGED last
    /\ UNCHANGED << buffers, stream_queue, loop, nframes, arrived, announced,
                    dispatched, returned, next_id, closed, reset >>
    /\ UNCHANGED << codecVars, wireVars >>

\* The lock is free and this task is the first of those waiting: it takes
\* the lock and suspends in drain().
RawLockAcquired(t) ==
    /\ RawWaiting(t)
    /\ ~drain_lock.locked
    /\ Head(drain_lock.waiters) = t
    /\ drain_lock' = [locked |-> TRUE, waiters |-> Tail(drain_lock.waiters)]
    /\ task' = [task EXCEPT ![t] = Suspended("write", None)]
    /\ UNCHANGED << buffers, stream_queue, loop, nframes, arrived, announced,
                    dispatched, returned, last, next_id, out, closed, reset >>
    /\ UNCHANGED << codecVars, wireVars >>

\* drain() completes, lines 36-38: it returns, or raises ConnectionResetError
\* on a lost connection, which write turns into RawConnError.
RawDrainReturn(t) ==
    /\ RawInDrain(t)
    /\ LET failed == closed \/ reset
       IN  /\ last' = IF failed
                      THEN Raised("write", "RawConnError")
                      ELSE Returned("write", "none")
           /\ drain_lock' = ReleasedOnExit(drain_lock, failed)
    /\ task' = [task EXCEPT ![t] = Idle]
    /\ UNCHANGED << buffers, stream_queue, loop, nframes, arrived, announced,
                    dispatched, returned, next_id, out, closed, reset >>
    /\ UNCHANGED << codecVars, wireVars >>

NextRaw ==
    \/ Reset
    \/ \E t \in Tasks :
        \/ \E d \in Chunks : RawWrite(t, d)
        \/ RawLockAcquired(t)
        \/ RawDrainReturn(t)

SpecRaw == Init /\ [][NextRaw]_vars

\* C20: RawConnection.write's drain lock. At most one task is inside
\* writer.drain(); the lock is held exactly while a task is there, so it is
\* released on every exit, the RawConnError of a failed drain included, and
\* the first waiting writer can take it; the tasks suspended at the lock are
\* the tasks queued for it.
C20_DrainLock ==
    /\ Cardinality({ t \in Tasks : RawInDrain(t) }) <= 1
    /\ drain_lock.locked <=> (\E t \in Tasks : RawInDrain(t))
    /\ \A t \in Tasks :
        RawWaiting(t) <=> (\E i \in 1 .. Len(drain_lock.waiters) :
                                drain_lock.waiters[i] = t)

\* A drain has failed with a connection reset, surfaced as RawConnError, and
\* another write has taken the lock since and is inside drain().
C20_Witness ==
    /\ reset
    /\ last = Raised("write", "RawConnError")
    /\ drain_lock.locked
    /\ \E t \in Tasks : RawInDrain(t)

====
